---- MODULE Spec2Model ----
(***************************************************************************)
(* A model of streamlink-rs (src/src/lib.rs): URL classification          *)
(* (UrlKind), the Stream entity (from_url, from_string, name, status) and *)
(* the Streamlink collection (new, from_strings, from_urls, status,       *)
(* stream_urls).                                                           *)
(*                                                                         *)
(* Strings are TLA+ strings read character by character (Len, SubSeq).    *)
(* Url::parse of the `url` crate is modelled on the input alphabet of     *)
(* RawStrings: lower-case ASCII, no userinfo, no percent escapes, no dot   *)
(* segments, no backslashes, no IPv6 literals.                             *)
(***************************************************************************)
EXTENDS Naturals, Sequences, FiniteSets, TLC

VARIABLES
    ret,        \* the last completed call: [op, arg, val]; arg and val are
                \* kept with the name of the call, <<op, value>>
    streamlink, \* the Streamlink value in scope: [exists, urls]
    built,      \* the constructor call that made it: [op, arg], arg as in ret
    panicked,   \* the thread has panicked (Result::unwrap on an Err)
    iter,       \* the Zip iterator returned by Streamlink::status()
    children,   \* youtube-dl child processes spawned and not yet waited for
    log,        \* probe attempts of the current pass, in launch order
    yielded,    \* the pairs the current pass has yielded so far
    prev,       \* the statuses yielded by the last complete pass before this one
    passes      \* number of Streamlink::status() calls on this Streamlink

vars == <<ret, streamlink, built, panicked, iter, children, log, yielded, prev, passes>>

\* Bounds of the model.
MaxLen == 2
MaxPasses == 2
MaxExitCode == 1

----------------------------------------------------------------------------
\* Characters and strings.

Ch(s, i) == SubSeq(s, i, i)

Letters == {"a","b","c","d","e","f","g","h","i","j","k","l","m","n","o","p",
            "q","r","s","t","u","v","w","x","y","z",
            "A","B","C","D","E","F","G","H","I","J","K","L","M","N","O","P",
            "Q","R","S","T","U","V","W","X","Y","Z"}
Digits == {"0","1","2","3","4","5","6","7","8","9"}

\* Index of the first character of s at or after position i that lies in
\* set cs; Len(s) + 1 when there is none.
RECURSIVE FindFirst(_, _, _)
FindFirst(s, i, cs) ==
    IF i > Len(s) THEN Len(s) + 1
    ELSE IF Ch(s, i) \in cs THEN i
    ELSE FindFirst(s, i + 1, cs)

AllIn(s, cs) == \A i \in 1..Len(s) : Ch(s, i) \in cs

\* str::split(c): the pieces of s between occurrences of c. An empty string
\* yields one empty piece; n separators yield n + 1 pieces.
RECURSIVE Split(_, _)
Split(s, c) ==
    LET j == FindFirst(s, 1, {c})
    IN  IF j > Len(s) THEN <<s>>
        ELSE <<SubSeq(s, 1, j - 1)>> \o Split(SubSeq(s, j + 1, Len(s)), c)

\* Iterator::skip(n) over a sequence.
Skip(seq, n) == SubSeq(seq, n + 1, Len(seq))

\* Option and Result values.
None == <<"None">>
Some(x) == <<"Some", x>>
Ok(x) == <<"Ok", x>>
Err(kind, arg) == <<"Err", kind, arg>>
Panic(err) == <<"Panic", err>>
IsOk(r) == r[1] = "Ok"
IsErr(r) == r[1] = "Err"
IsPanic(r) == r[1] = "Panic"

\* Iterator::next() over a sequence: the head, or None.
IterHead(seq) == IF Len(seq) = 0 THEN None ELSE Some(seq[1])

----------------------------------------------------------------------------
\* Url::parse, url.host(), url.path(), url.as_str().

SpecialSchemes == {"http", "https", "ws", "wss", "ftp"}

\* The characters a scheme is made of, and those that end the slashes
\* before the authority of a special scheme.
SchemeChars == Letters \cup Digits \cup {"+", "-", "."}
NotSlash == Letters \cup Digits \cup {".", ":", "?", "#"}
Ipv4Chars == Digits \cup {"."}

NoHost == [kind |-> "None", name |-> ""]

\* The authority "host[:port]" as a host and a port, or an error.
ParseAuthority(auth, special) ==
    LET c == FindFirst(auth, 1, {":"})
        h == SubSeq(auth, 1, c - 1)
        p == SubSeq(auth, c + 1, Len(auth))
    IN  IF h = "" /\ special THEN Err("EmptyHost", auth)
        ELSE IF ~AllIn(p, Digits) THEN Err("InvalidPort", auth)
        ELSE Ok([host |-> IF h = "" THEN NoHost
                          ELSE IF special /\ AllIn(h, Ipv4Chars)
                               THEN [kind |-> "Ipv4", name |-> h]
                          ELSE [kind |-> "Domain", name |-> h],
                 port |-> p])

\* Url::parse(s) without a base URL.
UrlParse(s) ==
    LET c == FindFirst(s, 1, {":"})
        scheme == SubSeq(s, 1, c - 1)
        rest == SubSeq(s, c + 1, Len(s))
        special == scheme \in SpecialSchemes
        \* a special scheme ignores any number of slashes before the authority
        a0 == IF special THEN FindFirst(rest, 1, NotSlash) ELSE 3
        hasAuth == special \/ SubSeq(rest, 1, 2) = "//"
        aEnd == FindFirst(rest, a0, {"/", "?", "#"})
        auth == SubSeq(rest, a0, aEnd - 1)
        p0 == IF hasAuth THEN aEnd ELSE 1
        pEnd == FindFirst(rest, p0, {"?", "#"})
        rawPath == SubSeq(rest, p0, pEnd - 1)
        qEnd == FindFirst(rest, pEnd, {"#"})
        query == SubSeq(rest, pEnd + 1, qEnd - 1)
        pa == ParseAuthority(auth, special)
    IN  IF c > Len(s) \/ scheme = ""
           \/ Ch(scheme, 1) \notin Letters
           \/ ~AllIn(scheme, SchemeChars)
        THEN Err("RelativeUrlWithoutBase", s)
        ELSE IF hasAuth /\ IsErr(pa) THEN pa
        ELSE Ok([scheme |-> scheme,
                 host |-> IF hasAuth THEN pa[2].host ELSE NoHost,
                 port |-> IF hasAuth THEN pa[2].port ELSE "",
                 path |-> IF special /\ rawPath = "" THEN "/" ELSE rawPath,
                 query |-> query])

\* url.as_str(): the serialization of a parsed URL.
AsStr(url) ==
    url.scheme \o ":"
    \o (IF url.host.kind = "None" THEN "" ELSE "//" \o url.host.name)
    \o (IF url.port = "" THEN "" ELSE ":" \o url.port)
    \o url.path
    \o (IF url.query = "" THEN "" ELSE "?" \o url.query)

----------------------------------------------------------------------------
\* Inputs.

\* Strings handed to Stream::from_string.
RawStrings ==
    { "https://twitch.tv/gogcom",
      "https://youtube.com/user/markiplierGAME",
      "https://youtube.com/markiplierGAME",
      "https://twitch.tv/food?x=1",
      "https://twitch.tv/",
      "https://youtube.com",
      "https://youtube.com/user",
      "foo://twitch.tv",
      "https://rust-lang.org/about",
      "https://www.twitch.tv/gogcom",
      "https://127.0.0.1/gogcom",
      "mailto:gogcom@twitch.tv",
      "wrong://fake.tv/thisdefinitelydoesntexist",
      "twitch.tv/gogcom",
      "not a url" }

\* Parsed URLs handed to Stream::from_url and UrlKind::from.
Urls == { UrlParse(s)[2] : s \in { r \in RawStrings : IsOk(UrlParse(r)) } }

\* Entries of the lists handed to the Streamlink constructors.
BatchStrings ==
    { "https://twitch.tv/gogcom",
      "https://youtube.com/user/markiplierGAME",
      "https://rust-lang.org/about",
      "not a url" }

BatchUrls == { UrlParse(s)[2] : s \in { r \in BatchStrings : IsOk(UrlParse(r)) } }

\* Url::parse on every string of the model, computed once.
ParsedUrl == [s \in RawStrings \cup BatchStrings |-> UrlParse(s)]

\* The lists over S of length at most n.
RECURSIVE ListsUpTo(_, _)
ListsUpTo(S, n) ==
    IF n = 0 THEN {<<>>}
    ELSE LET shorter == ListsUpTo(S, n - 1)
         IN  shorter \cup { Append(l, x) : l \in shorter, x \in S }

ListsOf(S) == ListsUpTo(S, MaxLen)

ExitCodes == 0..MaxExitCode

----------------------------------------------------------------------------
\* UrlKind and Stream.

\* Mutant of UrlKindFrom: the host is matched by its suffix, so that a
\* subdomain of a provider classifies as the provider.
UrlKindFromSuffix(url) ==
    LET name == url.host.name
        EndsWith(suffix) ==
            /\ Len(name) >= Len(suffix)
            /\ SubSeq(name, Len(name) - Len(suffix) + 1, Len(name)) = suffix
    IN  IF url.host.kind = "Domain"
        THEN CASE EndsWith("youtube.com") -> "Youtube"
               [] EndsWith("twitch.tv") -> "Twitch"
               [] OTHER -> "Other"
        ELSE "Other"

\* impl From<&Url> for UrlKind
UrlKindFrom(url) ==
    IF url.host.kind = "Domain"
    THEN CASE url.host.name = "youtube.com" -> "Youtube"
           [] url.host.name = "twitch.tv" -> "Twitch"
           [] OTHER -> "Other"
    ELSE "Other"

\* Mutant of StreamFromUrl: the Other kind is not rejected.
StreamFromUrlUnchecked(url) ==
    Ok([url |-> url, kind |-> UrlKindFrom(url)])

\* Stream::from_url
StreamFromUrl(url) ==
    LET kind == UrlKindFrom(url)
    IN  IF kind = "Other" THEN Err("NonStreamUrl", AsStr(url))
        ELSE Ok([url |-> url, kind |-> kind])

\* Stream::from_string
StreamFromString(s) ==
    LET url == ParsedUrl[s]
    IN  IF IsErr(url) THEN Err("UrlParse", s)
        ELSE StreamFromUrl(url[2])

\* Stream::name
StreamName(stream) ==
    LET path == stream.url.path
        path_parts == Skip(Split(path, "/"), 1)
        first == IterHead(path_parts)
    IN  CASE stream.kind = "Twitch" -> first
          [] stream.kind = "Youtube" ->
                IF first = Some("user") THEN IterHead(Skip(path_parts, 1))
                ELSE first
          [] OTHER -> None

\* What one run of `youtube-dl -F <url>` can come to: the process could not
\* be spawned, or it ran and exited with a code.
ProbeOutcomes ==
    { [launched |-> FALSE, code |-> 0] }
    \cup { [launched |-> TRUE, code |-> c] : c \in ExitCodes }

\* Mutant of StreamStatus: a failing exit code is returned as an error.
StreamStatusExitIsError(outcome) ==
    IF ~outcome.launched \/ outcome.code # 0 THEN Err("Io", "youtube-dl")
    ELSE Ok("Online")

\* Stream::status, given how the child process came out.
StreamStatus(outcome) ==
    IF ~outcome.launched THEN Err("Io", "youtube-dl")
    ELSE IF outcome.code = 0 THEN Ok("Online")
    ELSE Ok("Offline")

\* Result::unwrap_or
UnwrapOr(r, default) == IF IsOk(r) THEN r[2] ELSE default

----------------------------------------------------------------------------
\* Streamlink constructors.

\* Mutant of CollectStreams: the streams are collected in reverse order.
RECURSIVE CollectStreamsReversed(_, _)
CollectStreamsReversed(urls, acc) ==
    IF Len(urls) = 0 THEN Ok(acc)
    ELSE LET r == StreamFromUrl(Head(urls))
         IN  IF IsErr(r) THEN Panic(r)
             ELSE CollectStreamsReversed(Tail(urls), <<r[2]>> \o acc)

\* The .map(|u| Stream::from_url(u).or_else(Err).unwrap()).collect() of
\* Streamlink::from_urls: the streams in order, or the panic of the first
\* unwrap that meets an Err.
RECURSIVE CollectStreams(_, _)
CollectStreams(urls, acc) ==
    IF Len(urls) = 0 THEN Ok(acc)
    ELSE LET r == StreamFromUrl(Head(urls))
         IN  IF IsErr(r) THEN Panic(r)
             ELSE CollectStreams(Tail(urls), Append(acc, r[2]))

\* Streamlink::from_urls
StreamlinkFromUrls(urls) ==
    LET streams == CollectStreams(urls, <<>>)
    IN  IF IsPanic(streams) THEN streams
        ELSE Ok([urls |-> streams[2]])

\* The for loop of Streamlink::from_strings: every string is parsed, and the
\* first that does not parse ends the call.
RECURSIVE ParseAll(_, _)
ParseAll(strings, urls) ==
    IF Len(strings) = 0 THEN Ok(urls)
    ELSE LET url == ParsedUrl[Head(strings)]
         IN  IF IsOk(url) THEN ParseAll(Tail(strings), Append(urls, url[2]))
             ELSE Err("UrlParse", Head(strings))

\* Streamlink::from_strings
StreamlinkFromStrings(strings) ==
    LET urls == ParseAll(strings, <<>>)
    IN  IF IsErr(urls) THEN urls
        ELSE LET r == StreamlinkFromUrls(urls[2])
             IN  IF IsErr(r) THEN Err("Msg", "failed to create from urls")
                 ELSE r

\* Streamlink::new
StreamlinkNew(config) ==
    StreamlinkFromStrings(config.stream_urls)

----------------------------------------------------------------------------
\* State machine: one thread calling the library.

\* A call as ret keeps it.
Call(op, arg, val) == [op |-> op, arg |-> <<op, arg>>, val |-> <<op, val>>]

\* The argument and the value of the last call, and the argument of the
\* constructor call.
RetArg == ret.arg[2]
RetVal == ret.val[2]
BuiltArg == built.arg[2]

NoIter == [state |-> "none", a |-> 1, b |-> 1, pending |-> 0]

Init ==
    /\ ret = Call("none", <<>>, None)
    /\ streamlink = [exists |-> FALSE, urls |-> <<>>]
    /\ built = [op |-> "none", arg |-> <<"none", <<>>>>]
    /\ panicked = FALSE
    /\ iter = NoIter
    /\ children = {}
    /\ log = <<>>
    /\ yielded = <<>>
    /\ prev = <<>>
    /\ passes = 0

\* The thread is alive and holds no iterator that borrows the Streamlink.
Idle == ~panicked /\ iter.state # "active"

\* The thread has not started polling the Streamlink in scope: a session
\* makes its constructor and Stream-level calls, then polls.
NotPolling == ~panicked /\ iter.state = "none"

\* A call that touches neither the Streamlink nor the probes, and returns.
Return(op, arg, val) ==
    /\ ret' = Call(op, arg, val)
    /\ UNCHANGED <<streamlink, built, panicked, iter, children, log, yielded, prev, passes>>

\* UrlKind::from(&url)
CallUrlKindFrom(url) ==
    /\ NotPolling
    /\ Return("UrlKind::from", url, UrlKindFrom(url))

\* Stream::from_url(url)
CallStreamFromUrl(url) ==
    /\ NotPolling
    /\ Return("Stream::from_url", url, StreamFromUrl(url))

\* Stream::from_string(s)
CallStreamFromString(s) ==
    /\ NotPolling
    /\ Return("Stream::from_string", s, StreamFromString(s))

\* The Stream values the thread can reach: the one just constructed and
\* those of the Streamlink.
StreamsInScope ==
    (IF ret.op \in {"Stream::from_url", "Stream::from_string"} /\ IsOk(RetVal)
     THEN {RetVal[2]} ELSE {})
    \cup { streamlink.urls[i] : i \in 1..Len(streamlink.urls) }

\* stream.name()
CallStreamName(stream) ==
    /\ NotPolling
    /\ Return("Stream::name", stream, StreamName(stream))

\* streamlink.stream_urls()
CallStreamUrls ==
    /\ NotPolling
    /\ streamlink.exists
    /\ Return("Streamlink::stream_urls", <<>>, streamlink.urls)

\* A Streamlink constructor returns: an Ok value replaces the Streamlink in
\* scope; an Err leaves none; a panic unwinds the thread.
Construct(op, arg, val) ==
    /\ ret' = Call(op, arg, val)
    /\ panicked' = IsPanic(val)
    /\ streamlink' = IF IsOk(val) THEN [exists |-> TRUE, urls |-> val[2].urls]
                     ELSE [exists |-> FALSE, urls |-> <<>>]
    /\ built' = [op |-> op, arg |-> <<op, arg>>]
    /\ iter' = NoIter
    /\ log' = <<>>
    /\ yielded' = <<>>
    /\ prev' = <<>>
    /\ passes' = 0
    /\ UNCHANGED children

\* Streamlink::new(config)
CallStreamlinkNew(config) ==
    /\ NotPolling
    /\ Construct("Streamlink::new", config.stream_urls, StreamlinkNew(config))

\* Streamlink::from_strings(strings)
CallStreamlinkFromStrings(strings) ==
    /\ NotPolling
    /\ Construct("Streamlink::from_strings", strings, StreamlinkFromStrings(strings))

\* Streamlink::from_urls(urls)
CallStreamlinkFromUrls(urls) ==
    /\ NotPolling
    /\ Construct("Streamlink::from_urls", urls, StreamlinkFromUrls(urls))

\* Mutant of CallStatus: the statuses are collected when status() is called,
\* so the first probe is spawned by the call itself.
CallStatusEager ==
    /\ Idle
    /\ streamlink.exists
    /\ passes < MaxPasses
    /\ iter' = [state |-> "active", a |-> 1, b |-> 1, pending |-> 0]
    /\ log' = <<>>
    /\ yielded' = <<>>
    /\ passes' = passes + 1
    /\ ret' = Call("Streamlink::status", <<>>, None)
    /\ prev' = IF iter.state = "exhausted"
               THEN [i \in 1..Len(yielded) |-> yielded[i].status]
               ELSE prev
    /\ children' = IF Len(streamlink.urls) > 0 THEN children \cup {1} ELSE children
    /\ UNCHANGED <<streamlink, built, panicked>>

\* streamlink.status(): builds urls_iter.zip(statuses_iter); both iterators
\* start at the first stream and nothing is pulled from them yet.
CallStatus ==
    /\ Idle
    /\ streamlink.exists
    /\ passes < MaxPasses
    /\ iter' = [state |-> "active", a |-> 1, b |-> 1, pending |-> 0]
    /\ log' = <<>>
    /\ yielded' = <<>>
    /\ passes' = passes + 1
    /\ ret' = Call("Streamlink::status", <<>>, None)
    /\ prev' = IF iter.state = "exhausted"
               THEN [i \in 1..Len(yielded) |-> yielded[i].status]
               ELSE prev
    /\ UNCHANGED <<streamlink, built, panicked, children>>

\* Mutant of StatusOrOffline: a probe that cannot be launched counts as
\* Online.
StatusOrOnline(outcome) == UnwrapOr(StreamStatus(outcome), "Online")

\* Mutant of StatusOrOffline: the status of the previous pass is reused
\* when there is one.
StatusCached(outcome) ==
    IF Len(prev) > Len(yielded) THEN prev[Len(yielded) + 1]
    ELSE UnwrapOr(StreamStatus(outcome), "Offline")

\* The closure of statuses_iter: url.status().unwrap_or(StreamStatus::Offline)
StatusOrOffline(outcome) == UnwrapOr(StreamStatus(outcome), "Offline")

\* One probe attempt, as the log keeps it.
Attempt(i, outcome) ==
    [idx |-> i, arg |-> AsStr(streamlink.urls[i].url), outcome |-> outcome,
     result |-> StreamStatus(outcome)]

\* Zip::next(), first half: urls_iter.next() gives a stream, statuses_iter
\* .next() calls Stream::status on its own next stream, and
\* Command::status() spawns youtube-dl. A spawn that fails returns at once;
\* one that succeeds leaves the thread waiting for the child.
ZipNextSpawn ==
    /\ ~panicked
    /\ iter.state = "active"
    /\ iter.pending = 0
    /\ iter.a <= Len(streamlink.urls)
    /\ iter.b <= Len(streamlink.urls)
    /\ \/ /\ children' = children \cup {iter.b}
          /\ iter' = [iter EXCEPT !.a = @ + 1, !.b = @ + 1, !.pending = iter.a]
          /\ UNCHANGED <<log, yielded>>
       \/ LET outcome == [launched |-> FALSE, code |-> 0]
          IN  /\ log' = Append(log, Attempt(iter.b, outcome))
              /\ yielded' = Append(yielded, [stream |-> streamlink.urls[iter.a],
                                             status |-> StatusOrOffline(outcome)])
              /\ iter' = [iter EXCEPT !.a = @ + 1, !.b = @ + 1]
              /\ UNCHANGED children
    /\ UNCHANGED <<ret, streamlink, built, panicked, prev, passes>>

\* Zip::next(), second half: the child exits, Command::status() returns its
\* ExitStatus and the pair is yielded.
ZipNextExit(code) ==
    /\ iter.state = "active"
    /\ iter.pending # 0
    /\ \E c \in children :
          LET outcome == [launched |-> TRUE, code |-> code]
          IN  /\ children' = children \ {c}
              /\ log' = Append(log, Attempt(c, outcome))
              /\ yielded' = Append(yielded, [stream |-> streamlink.urls[iter.pending],
                                             status |-> StatusOrOffline(outcome)])
    /\ iter' = [iter EXCEPT !.pending = 0]
    /\ UNCHANGED <<ret, streamlink, built, panicked, prev, passes>>

\* Zip::next() at the end of either iterator: None, the pass is complete.
ZipNextNone ==
    /\ ~panicked
    /\ iter.state = "active"
    /\ iter.pending = 0
    /\ (iter.a > Len(streamlink.urls) \/ iter.b > Len(streamlink.urls))
    /\ iter' = [iter EXCEPT !.state = "exhausted"]
    /\ UNCHANGED <<ret, streamlink, built, panicked, children, log, yielded, prev, passes>>

\* The caller drops the iterator before its end.
DropIter ==
    /\ ~panicked
    /\ iter.state = "active"
    /\ iter.pending = 0
    /\ iter.a <= Len(streamlink.urls)
    /\ iter' = [iter EXCEPT !.state = "dropped"]
    /\ UNCHANGED <<ret, streamlink, built, panicked, children, log, yielded, prev, passes>>

Next ==
    \/ \E url \in Urls : CallUrlKindFrom(url)
    \/ \E url \in Urls : CallStreamFromUrl(url)
    \/ \E s \in RawStrings : CallStreamFromString(s)
    \/ \E stream \in StreamsInScope : CallStreamName(stream)
    \/ CallStreamUrls
    \/ \E strings \in ListsOf(BatchStrings) :
          CallStreamlinkNew([stream_urls |-> strings])
    \/ \E strings \in ListsOf(BatchStrings) : CallStreamlinkFromStrings(strings)
    \/ \E urls \in ListsOf(BatchUrls) : CallStreamlinkFromUrls(urls)
    \/ CallStatus
    \/ ZipNextSpawn
    \/ \E code \in ExitCodes : ZipNextExit(code)
    \/ ZipNextNone
    \/ DropIter

Spec == Init /\ [][Next]_vars

----------------------------------------------------------------------------
\* Properties.

Providers == {"Youtube", "Twitch"}

BatchOps == {"Streamlink::new", "Streamlink::from_strings", "Streamlink::from_urls"}

\* The status a probe outcome stands for.
StatusOf(outcome) ==
    IF outcome.launched /\ outcome.code = 0 THEN "Online" ELSE "Offline"

\* The stream the i-th input of the constructor call stands for.
ExpectedStream(i) ==
    IF built.op = "Streamlink::from_urls" THEN StreamFromUrl(BuiltArg[i])[2]
    ELSE StreamFromString(BuiltArg[i])[2]

\* C1: Stream::from_url returns Ok exactly when the URL classifies as
\* Youtube or Twitch, Stream::from_string exactly when the string parses and
\* the URL classifies so, and every Stream that exists (just constructed,
\* held by the Streamlink, or yielded by status()) has kind Youtube or
\* Twitch.
StreamsAreProviderStreams ==
    /\ ret.op = "Stream::from_url" =>
          (IsOk(RetVal) <=> UrlKindFrom(RetArg) \in Providers)
    /\ ret.op = "Stream::from_string" =>
          (IsOk(RetVal) <=>
              /\ IsOk(UrlParse(RetArg))
              /\ UrlKindFrom(UrlParse(RetArg)[2]) \in Providers)
    /\ \A st \in StreamsInScope :
          st.kind \in Providers /\ st.kind = UrlKindFrom(st.url)
    /\ \A i \in 1..Len(yielded) : yielded[i].stream.kind \in Providers

\* C1 witness: a Streamlink of two streams exists and Stream::from_string has
\* just rejected a URL that parses but is no provider's.
StreamRejectedWitness ==
    /\ streamlink.exists
    /\ Len(streamlink.urls) >= 2
    /\ ret.op = "Stream::from_string"
    /\ IsErr(RetVal)
    /\ RetVal[2] = "NonStreamUrl"

\* Whether an entry of a constructor's list parses, and whether it is valid.
EntryParses(op, e) == op = "Streamlink::from_urls" \/ IsOk(UrlParse(e))
EntryUrl(op, e) == IF op = "Streamlink::from_urls" THEN e ELSE UrlParse(e)[2]
EntryValid(op, e) ==
    EntryParses(op, e) /\ UrlKindFrom(EntryUrl(op, e)) \in Providers

\* C2: a batch constructor given an invalid entry returns an Err value to
\* the caller (UrlParse for an entry that does not parse, NonStreamUrl for
\* one that parses but is no provider's), does not panic and produces no
\* Streamlink.
BatchErrorsAreReturned ==
    ret.op \in BatchOps =>
        LET n == Len(RetArg)
            bad == { i \in 1..n : ~EntryValid(ret.op, RetArg[i]) }
            malformed == { i \in bad : ~EntryParses(ret.op, RetArg[i]) }
        IN  bad # {} =>
                /\ ~panicked
                /\ IsErr(RetVal)
                /\ ~streamlink.exists
                /\ malformed = bad => RetVal[2] = "UrlParse"
                /\ malformed = {} => RetVal[2] = "NonStreamUrl"

\* The error a constructor call reported, whether returned or carried by
\* the panic of unwrap.
Reported(val) == IF IsPanic(val) THEN val[2] ELSE val

\* C3: Streamlink::from_strings (and new) given a list with an invalid entry
\* reports the error of the invalid entry of lowest index: UrlParse of that
\* string when it does not parse, NonStreamUrl of its URL when it does.
FirstInvalidEntryIsReported ==
    ret.op \in {"Streamlink::new", "Streamlink::from_strings"} =>
        LET n == Len(RetArg)
            bad == { i \in 1..n : ~EntryValid(ret.op, RetArg[i]) }
        IN  bad # {} =>
                LET first == CHOOSE i \in bad : \A j \in bad : i <= j
                    e == RetArg[first]
                IN  /\ ~IsOk(RetVal)
                    /\ Reported(RetVal) =
                          IF IsOk(UrlParse(e))
                          THEN Err("NonStreamUrl", AsStr(UrlParse(e)[2]))
                          ELSE Err("UrlParse", e)

\* C4: a pass over status() yields a pair for every stream whatever the
\* probes come to; a stream whose probe could not be launched is reported
\* Offline, and every stream is reported with its own probe's outcome.
LaunchFailuresAreAbsorbed ==
    /\ iter.state # "none" => ~panicked
    /\ Len(yielded) = Len(log)
    /\ \A i \in 1..Len(yielded) :
          /\ ~log[i].outcome.launched => yielded[i].status = "Offline"
          /\ log[i].outcome.launched => yielded[i].status = StatusOf(log[i].outcome)
    /\ iter.state = "exhausted" => Len(yielded) = Len(streamlink.urls)
    /\ (iter.state = "active" /\ iter.pending = 0) =>
          (Len(yielded) < Len(streamlink.urls) <=> iter.a <= Len(streamlink.urls))

\* C4 witness: a complete pass in which a probe could not be launched and a
\* later stream was reported Online.
LaunchFailureWitness ==
    /\ iter.state = "exhausted"
    /\ \E i, j \in 1..Len(yielded) :
          /\ i < j
          /\ ~log[i].outcome.launched
          /\ yielded[i].status = "Offline"
          /\ log[j].outcome.launched
          /\ yielded[j].status = "Online"

\* C5: Stream::status returns Ok(Online) for a launched probe that exits
\* with code zero, Ok(Offline) for one that exits with any other code, and
\* an I/O error, with no status, only for a probe that could not be launched.
StreamStatusOutcomes ==
    \A i \in 1..Len(log) :
        LET o == log[i].outcome
            r == log[i].result
        IN  /\ (o.launched /\ o.code = 0) => r = Ok("Online")
            /\ (o.launched /\ o.code # 0) => r = Ok("Offline")
            /\ ~o.launched => (IsErr(r) /\ r[2] = "Io")
            /\ IsErr(r) => ~o.launched

\* C5 witness: one pass has seen a probe exit with a failing code and a
\* probe that could not be launched.
StreamStatusWitness ==
    \E i, j \in 1..Len(log) :
        /\ log[i].outcome.launched
        /\ log[i].outcome.code # 0
        /\ log[i].result = Ok("Offline")
        /\ ~log[j].outcome.launched
        /\ IsErr(log[j].result)

\* C6: a Streamlink built from inputs s1..sn holds exactly the streams of
\* s1..sn in input order, stream_urls() returns them, and a pass over
\* status() yields, in that order, each stream with the status of the probe
\* of its own URL; a complete pass yields n pairs.
OrderAndPairingPreserved ==
    streamlink.exists =>
        LET n == Len(BuiltArg)
        IN  /\ Len(streamlink.urls) = n
            /\ \A i \in 1..n : streamlink.urls[i] = ExpectedStream(i)
            /\ ret.op = "Streamlink::stream_urls" =>
                  /\ Len(RetVal) = n
                  /\ \A i \in 1..n : RetVal[i] = ExpectedStream(i)
            /\ Len(yielded) <= n
            /\ Len(log) = Len(yielded)
            /\ \A i \in 1..Len(yielded) :
                  /\ yielded[i].stream = ExpectedStream(i)
                  /\ log[i].idx = i
                  /\ log[i].arg = AsStr(ExpectedStream(i).url)
                  /\ yielded[i].status = StatusOf(log[i].outcome)
            /\ iter.state = "exhausted" => Len(yielded) = n

\* C6 witness: a complete pass over two different streams that came out
\* with different statuses.
OrderAndPairingWitness ==
    /\ iter.state = "exhausted"
    /\ Len(yielded) = 2
    /\ yielded[1].stream # yielded[2].stream
    /\ yielded[1].status # yielded[2].status

\* The k-th segment of a path, "" when the path has none.
Segment(path, k) ==
    LET parts == Split(path, "/")
    IN  IF Len(parts) >= k + 1 THEN parts[k + 1] ELSE ""

\* A segment as a name: none when it is empty.
Usable(seg) == IF seg = "" THEN None ELSE Some(seg)

\* C7: Stream::name is the first path segment for Twitch; for Youtube the
\* second segment when the first is "user", else the first; and none when
\* the path yields no usable segment, as for https://twitch.tv/.
NameFollowsProviderRules ==
    ret.op = "Stream::name" =>
        LET s1 == Segment(RetArg.url.path, 1)
            s2 == Segment(RetArg.url.path, 2)
        IN  RetVal = IF RetArg.kind = "Youtube" /\ s1 = "user" THEN Usable(s2)
                      ELSE Usable(s1)

\* C8: classification is decided by the host alone: the Domain host
\* youtube.com is Youtube, twitch.tv is Twitch, every other host (other
\* domain, subdomain, IP address, none) is Other, and every URL of the same
\* host classifies the same whatever its path and query.
ClassificationByHostAlone ==
    ret.op = "UrlKind::from" =>
        /\ RetVal =
              IF RetArg.host = [kind |-> "Domain", name |-> "youtube.com"]
              THEN "Youtube"
              ELSE IF RetArg.host = [kind |-> "Domain", name |-> "twitch.tv"]
              THEN "Twitch"
              ELSE "Other"
        /\ \A v \in Urls : v.host = RetArg.host => UrlKindFrom(v) = RetVal

\* C8 witness: a subdomain of a provider has been classified Other.
SubdomainIsOtherWitness ==
    /\ ret.op = "UrlKind::from"
    /\ RetArg.host.name = "www.twitch.tv"
    /\ RetVal = "Other"

\* C9: no probe is launched by a constructor or by the status() call; as
\* the sequence is consumed each pulled element launches one probe, in
\* stored order, and a probe is launched only when the one before it has
\* completed or failed to launch, so at most one is in flight.
ProbesAreLazyAndSequential ==
    /\ iter.state = "none" => (children = {} /\ log = <<>>)
    /\ Cardinality(children) <= 1
    /\ Len(log) + Cardinality(children) = iter.a - 1
    /\ \A i \in 1..Len(log) : log[i].idx = i
    /\ \A c \in children : c = Len(log) + 1

\* C9 witness: the probe of the second stream is in flight after the probe
\* of the first has completed.
SecondProbeInFlightWitness ==
    /\ children = {2}
    /\ Len(log) = 1
    /\ log[1].outcome.launched

\* C10: a complete pass makes exactly one probe attempt per stream and
\* reports each stream with the outcome of that attempt; the stored streams
\* stay those the Streamlink was built with; a later pass probes every
\* stream again and reports the new outcomes.
StatusIsRecallable ==
    /\ iter.state = "exhausted" =>
          /\ Len(log) = Len(streamlink.urls)
          /\ \A i \in 1..Len(streamlink.urls) :
                Cardinality({ j \in 1..Len(log) : log[j].idx = i }) = 1
          /\ Len(yielded) = Len(log)
          /\ \A i \in 1..Len(log) : yielded[i].status = StatusOf(log[i].outcome)
    /\ (streamlink.exists /\ passes > 0) =>
          /\ Len(streamlink.urls) = Len(BuiltArg)
          /\ \A i \in 1..Len(BuiltArg) : streamlink.urls[i] = ExpectedStream(i)

\* C10 witness: a second complete pass reported a stream otherwise than the
\* first pass did.
SecondPassDiffersWitness ==
    /\ passes = 2
    /\ iter.state = "exhausted"
    /\ Len(prev) = Len(yielded)
    /\ \E i \in 1..Len(yielded) : prev[i] # yielded[i].status

====
